---- MODULE Spec2Model ----
(***************************************************************************)
(* PyPacker Lite (pypacker1.0.1.py): a PySide6 window that selects a       *)
(* script, builds a PyInstaller command line from its widgets, runs it in  *)
(* a BuildThread and shows the streamed output in a log view.              *)
(*                                                                         *)
(* Texts (paths, log lines, command arguments) are sequences of string     *)
(* tokens, so that endswith, strip, rstrip, dirname, join are computed.    *)
(* An optional value (None or x) is the sequence <<>> or <<x>>.            *)
(***************************************************************************)
EXTENDS Integers, Sequences, FiniteSets, TLC

VARIABLES app, fs, pyinstaller_available, current_script, path_edit,
          icon_edit, onefile_check, noconsole_check, pack_btn, progress,
          install_btn, log_text, build_thread, threads, queue, installs,
          msgbox

vars == <<app, fs, pyinstaller_available, current_script, path_edit,
          icon_edit, onefile_check, noconsole_check, pack_btn, progress,
          install_btn, log_text, build_thread, threads, queue, installs,
          msgbox>>

-----------------------------------------------------------------------------
(* Bounds *)

\* BuildThreads started in one behaviour
MaxBuilds == 2
\* lines one PyInstaller subprocess writes
MaxLines == 1
\* clicks on the install button in one behaviour
MaxInstalls == 1
\* lines the UI handlers themselves keep in the log view
MaxUiLog == 1
\* urls carried by one drop event
MaxUrls == 2

-----------------------------------------------------------------------------
(* Texts and paths *)

None == <<>>
Some(x) == <<x>>

Cwd == <<"/", "d">>
ScriptA == <<"/", "d", "/", "a", ".py">>
ScriptGone == <<"/", "d", "/", "gone", ".py">>
NotesTxt == <<"/", "d", "/", "n", ".txt">>
IconI == <<"/", "d", "/", "i", ".ico">>
RelA == <<"a", ".py">>

\* what a drop url's toLocalFile() can be ("" for a non-local url)
DropPaths == {ScriptA, ScriptGone, NotesTxt, <<>>}
\* the files the user picks in the file dialogs
ScriptChoices == {ScriptA, NotesTxt}
IconChoices == {IconI}
\* the files that are removed while the program runs
Removable == {IconI}
\* sys.argv[1]
ArgvPaths == {RelA, <<"\"">> \o ScriptA \o <<"\"">>, <<"'">> \o ScriptA \o <<"'">>,
              ScriptGone, NotesTxt}
InitialFiles == {ScriptA, NotesTxt, IconI}

Interp == <<"python">>
\* the program's Chinese texts, transliterated
\* the output folder name of start_pack
OutputName == <<"shuchu">>
\* the log texts of BuildThread.run
TextExecCmd == <<"zhixing mingling: ">>
TextPackOk == <<"dabao chenggong!">>
TextPackFailed == <<"dabao shibai">>
TextExecError == <<"zhixing yichang: ">>
\* the log texts of the window
TextSelected == <<"yi xuanze: ">>
TextInstalling == <<"zhengzai anzhuang PyInstaller...">>
TextInstallOk == <<"anzhuang chenggong!">>
TextInstallFailed == <<"anzhuang shibai">>
TextInstallError == <<"anzhuang yichang: ">>
TextCannotOpen == <<"wufa dakai: ">>
Separator == <<"-*50">>
Whitespace == {" ", "\n", "\t"}
\* the lines a subprocess can write, as read from its pipe
RawLines == {<<"x", " ", "\n">>}

\* str.endswith('.py')
EndsWithPy(p) == Len(p) > 0 /\ p[Len(p)] = ".py"

RECURSIVE LStrip(_, _)
LStrip(s, chars) ==
    IF s # <<>> /\ Head(s) \in chars THEN LStrip(Tail(s), chars) ELSE s

RECURSIVE RStrip(_, _)
RStrip(s, chars) ==
    IF s # <<>> /\ s[Len(s)] \in chars
    THEN RStrip(SubSeq(s, 1, Len(s) - 1), chars) ELSE s

\* str.strip(chars)
Strip(s, chars) == RStrip(LStrip(s, chars), chars)

\* os.path.abspath
AbsPath(p) == IF p # <<>> /\ p[1] = "/" THEN p ELSE Cwd \o <<"/">> \o p

RECURSIVE LastSlash(_, _)
LastSlash(p, i) ==
    IF i = 0 THEN 0 ELSE IF p[i] = "/" THEN i ELSE LastSlash(p, i - 1)

\* os.path.dirname
DirName(p) ==
    LET i == LastSlash(p, Len(p))
    IN IF i = 0 THEN <<>> ELSE IF i = 1 THEN <<"/">> ELSE SubSeq(p, 1, i - 1)

\* os.path.join(a, b) for a relative b
PathJoin(a, b) ==
    IF a = <<>> THEN b
    ELSE IF a[Len(a)] = "/" THEN a \o b ELSE a \o <<"/">> \o b

\* os.path.exists
Exists(p, files) == p # <<>> /\ AbsPath(p) \in files

RECURSIVE Join(_)
\* ' '.join(cmd)
Join(cmd) ==
    IF cmd = <<>> THEN <<>>
    ELSE IF Len(cmd) = 1 THEN cmd[1]
    ELSE cmd[1] \o <<" ">> \o Join(Tail(cmd))

-----------------------------------------------------------------------------
(* BuildThread *)

\* BuildThread.__init__; pc, cmd, spawned, rc follow run(); written is what
\* the subprocess wrote, emitted the signals run() emitted, received the
\* texts the log slot has appended for this thread, fin whether
\* on_pack_finished has run for it
NewThread(script_path, output_folder, onefile, noconsole, icon_path) ==
    [script_path |-> script_path, output_folder |-> output_folder,
     onefile |-> onefile, noconsole |-> noconsole, icon_path |-> icon_path,
     pc |-> "started", cmd |-> <<>>, spawned |-> FALSE, rc |-> None,
     written |-> <<>>, emitted |-> <<>>, received |-> <<>>, fin |-> FALSE]

\* the thread once on_pack_finished has run for it: run() has returned and
\* nothing reads the object's fields again, so all such threads are alike
Finished ==
    [NewThread(<<>>, <<>>, TRUE, FALSE, None) EXCEPT !.pc = "done", !.fin = TRUE]

\* '-F' or '-D'
ModeFlag(onefile) == IF onefile THEN <<"-F">> ELSE <<"-D">>

\* '-w' when noconsole
ConsoleArgs(noconsole) == IF noconsole THEN << <<"-w">> >> ELSE <<>>

\* IconArgs without the os.path.exists test
IconArgsUnchecked(icon_path, files) ==
    IF icon_path # None /\ icon_path[1] # <<>>
    THEN << <<"--icon">>, icon_path[1] >> ELSE <<>>

\* '--icon', icon_path when icon_path is truthy and exists
IconArgs(icon_path, files) ==
    IF icon_path # None /\ icon_path[1] # <<>> /\ Exists(icon_path[1], files)
    THEN << <<"--icon">>, icon_path[1] >> ELSE <<>>

\* the cmd list of run()
BuildCmd(t, files) ==
    << Interp, <<"-m">>, <<"PyInstaller">>, <<"--distpath">>,
       t.output_folder, <<"--noconfirm">> >>
    \o << ModeFlag(t.onefile) >>
    \o ConsoleArgs(t.noconsole)
    \o IconArgs(t.icon_path, files)
    \o << t.script_path >>

LogSig(tid, text) == [tid |-> tid, sig |-> "log", arg |-> text]
FinSig(tid, ok) == [tid |-> tid, sig |-> "finished", arg |-> ok]

\* the emissions after process.wait()
ExitEmissions(tid, returncode) ==
    IF returncode = 0
    THEN << LogSig(tid, Separator), LogSig(tid, TextPackOk), FinSig(tid, TRUE) >>
    ELSE << LogSig(tid, Separator), LogSig(tid, TextPackFailed), FinSig(tid, FALSE) >>

\* an except branch that logs and forgets finished_signal
ExceptEmissionsNoFinish(tid, e) == << LogSig(tid, TextExecError \o <<e>>) >>

\* the emissions of the except branch
ExceptEmissions(tid, e) ==
    << LogSig(tid, TextExecError \o <<e>>), FinSig(tid, FALSE) >>

\* the QThread object of a thread that start_pack has already replaced in
\* build_thread is destroyed when its run() returns; Qt aborts the process
\* if it still counts as running
AfterRun(tid) ==
    IF build_thread # tid THEN app' \in {"running", "crashed"} ELSE app' = app

UiFrame ==
    UNCHANGED <<fs, pyinstaller_available, current_script, path_edit,
                icon_edit, onefile_check, noconsole_check, pack_btn, progress,
                install_btn, log_text, build_thread, installs>>

\* what the subprocess does: Popen succeeds or raises, the lines it writes
\* before the read ends or raises, and its return code
Procs ==
    [spawn : {"ok", "raises"},
     lines : UNION {[1..n -> RawLines] : n \in 0..MaxLines},
     read : {"eof", "raises"},
     returncode : {0, 1}]

\* a read loop that loses the first line of the pipe
LineEmissionsSkipFirst(tid, lines) ==
    [i \in 1..(Len(lines) - 1) |-> LogSig(tid, RStrip(lines[i + 1], Whitespace))]

\* the log_signal emissions of 'for line in process.stdout'
LineEmissions(tid, lines) ==
    [i \in 1..Len(lines) |-> LogSig(tid, RStrip(lines[i], Whitespace))]

\* the emissions of run() for a subprocess that behaves as proc
RunEmissions(tid, cmd, proc) ==
    << LogSig(tid, TextExecCmd \o Join(cmd)), LogSig(tid, Separator) >>
    \o IF proc.spawn = "raises" THEN ExceptEmissions(tid, "OSError")
       ELSE LineEmissions(tid, proc.lines)
            \o IF proc.read = "raises"
               THEN ExceptEmissions(tid, "UnicodeDecodeError")
               ELSE ExitEmissions(tid, proc.returncode)

\* run(); the signals it emits are queued to the UI thread
Run(tid, proc) ==
    /\ app = "running"
    /\ threads[tid].pc = "started"
    /\ proc.spawn = "raises" => proc.lines = <<>> /\ proc.read = "eof"
    /\ (proc.spawn = "raises" \/ proc.read = "raises") => proc.returncode = 0
    /\ LET cmd == BuildCmd(threads[tid], fs)
           sigs == RunEmissions(tid, cmd, proc)
       IN /\ queue' = queue \o sigs
          /\ threads' = [threads EXCEPT
                 ![tid].pc = "done",
                 ![tid].cmd = cmd,
                 ![tid].spawned = (proc.spawn = "ok"),
                 ![tid].rc = IF proc.spawn = "ok" /\ proc.read = "eof"
                             THEN Some(proc.returncode) ELSE None,
                 ![tid].written = proc.lines,
                 ![tid].emitted = sigs]
    /\ AfterRun(tid)
    /\ msgbox' = "none"
    /\ UiFrame

-----------------------------------------------------------------------------
(* PyPackerWindow: handlers run on the UI thread *)

Hidden == [visible |-> FALSE, range |-> <<0, 100>>]
Busy == [visible |-> TRUE, range |-> <<0, 0>>]

\* an entry of the log view; src is the BuildThread whose log_signal carried
\* it, 0 for a handler of the window, -1 for the install task
Entry(src, text) == [src |-> src, text |-> text]

\* x or None
OrNone(x) == IF x = <<>> THEN None ELSE Some(x)

\* not x, for an optional text x
Falsy(x) == x = None \/ x[1] = <<>>

SelectedLines(l) ==
    Cardinality({i \in DOMAIN l : l[i].src = 0 /\ l[i].text # <<>>
                                   /\ l[i].text[1] = TextSelected[1]})

\* the three early returns without the os.path.exists test
RejectedUnchecked(script) ==
    IF Falsy(script) THEN "select_script_first"
    ELSE IF ~pyinstaller_available THEN "install_first"
    ELSE "none"

\* the message box of the early return start_pack takes, "none" when it
\* takes none
Rejected(script) ==
    IF Falsy(script) THEN "select_script_first"
    ELSE IF ~pyinstaller_available THEN "install_first"
    ELSE IF ~Exists(script[1], fs) THEN "file_missing"
    ELSE "none"

\* start_pack, entered with current_script = script, the path field pe and
\* the pack button's enabled state btn
StartPackFrom(script, pe, btn) ==
    /\ current_script' = script
    /\ path_edit' = pe
    /\ IF Rejected(script) # "none"
       THEN /\ msgbox' = Rejected(script)
            /\ pack_btn' = btn
            /\ UNCHANGED <<log_text, progress, build_thread, threads>>
       ELSE /\ log_text' = <<>>
            /\ pack_btn' = FALSE
            /\ progress' = Busy
            /\ threads' = Append(threads,
                   NewThread(script[1],
                             PathJoin(DirName(AbsPath(script[1])), OutputName),
                             onefile_check, noconsole_check, OrNone(icon_edit)))
            /\ build_thread' = Len(threads) + 1
            /\ msgbox' = "none"
    /\ UNCHANGED <<fs, pyinstaller_available, icon_edit, onefile_check,
                   noconsole_check, install_btn, queue, installs>>

\* _handle_args, the last step of __init__
HandleArgs(argv) ==
    /\ app = "init"
    /\ app' = "running"
    /\ LET script_path == Strip(Strip(argv[2], {"\""}), {"'"})
       IN IF Len(argv) > 1 /\ EndsWithPy(script_path) /\ Exists(script_path, fs)
          THEN StartPackFrom(Some(script_path), script_path, TRUE)
          ELSE UNCHANGED <<current_script, path_edit, pack_btn, log_text,
                           progress, build_thread, threads, msgbox, fs,
                           pyinstaller_available, icon_edit, onefile_check,
                           noconsole_check, install_btn, queue, installs>>

\* a click on the pack button
StartPack ==
    /\ app = "running"
    /\ pack_btn
    /\ Len(threads) < MaxBuilds
    /\ StartPackFrom(current_script, path_edit, pack_btn)
    /\ app' = app

\* on_file_dropped
OnFileDropped(file_path) ==
    IF Exists(file_path, fs) \/ EndsWithPy(file_path)
    THEN /\ path_edit' = file_path
         /\ current_script' = Some(file_path)
         /\ pack_btn' = TRUE
         /\ log_text' = Append(log_text, Entry(0, TextSelected \o file_path))
    ELSE UNCHANGED <<path_edit, current_script, pack_btn, log_text>>

RECURSIVE FirstPy(_)
\* the first url of a drop whose local file ends in .py
FirstPy(urls) ==
    IF urls = <<>> THEN None
    ELSE IF EndsWithPy(Head(urls)) THEN Some(Head(urls))
    ELSE FirstPy(Tail(urls))

SelectFrame ==
    /\ msgbox' = "none"
    /\ UNCHANGED <<app, fs, pyinstaller_available, icon_edit, onefile_check,
                   noconsole_check, progress, install_btn, build_thread,
                   threads, queue, installs>>

\* dropEvent
DropEvent(urls) ==
    /\ app = "running"
    /\ SelectedLines(log_text) < MaxUiLog
    /\ IF FirstPy(urls) # None
       THEN OnFileDropped(FirstPy(urls)[1])
       ELSE UNCHANGED <<path_edit, current_script, pack_btn, log_text>>
    /\ SelectFrame

\* browse_file; the dialog returns an existing file or '' when cancelled
BrowseFile(file_path) ==
    /\ app = "running"
    /\ SelectedLines(log_text) < MaxUiLog
    /\ file_path = <<>> \/ file_path \in fs
    /\ IF file_path # <<>>
       THEN OnFileDropped(file_path)
       ELSE UNCHANGED <<path_edit, current_script, pack_btn, log_text>>
    /\ SelectFrame

\* browse_icon
BrowseIcon(file_path) ==
    /\ app = "running"
    /\ file_path = <<>> \/ file_path \in fs
    /\ icon_edit' = IF file_path # <<>> THEN file_path ELSE icon_edit
    /\ msgbox' = "none"
    /\ UNCHANGED <<app, fs, pyinstaller_available, current_script, path_edit,
                   onefile_check, noconsole_check, pack_btn, progress,
                   install_btn, log_text, build_thread, threads, queue,
                   installs>>

\* the user toggles a checkbox
ToggleOnefile ==
    /\ app = "running"
    /\ onefile_check' = ~onefile_check
    /\ msgbox' = "none"
    /\ UNCHANGED <<app, fs, pyinstaller_available, current_script, path_edit,
                   icon_edit, noconsole_check, pack_btn, progress, install_btn,
                   log_text, build_thread, threads, queue, installs>>

ToggleNoconsole ==
    /\ app = "running"
    /\ noconsole_check' = ~noconsole_check
    /\ msgbox' = "none"
    /\ UNCHANGED <<app, fs, pyinstaller_available, current_script, path_edit,
                   icon_edit, onefile_check, pack_btn, progress, install_btn,
                   log_text, build_thread, threads, queue, installs>>

\* an on_pack_finished that asks its question whatever the result
FinishedBoxAlways(success) == "pack_done_question"

\* the message box of on_pack_finished
FinishedBox(success) == IF success THEN "pack_done_question" ELSE "none"

\* on_pack_finished, with the user's answer and whether open_folder raises
OnPackFinished(success, answer, raises) ==
    /\ progress' = Hidden
    /\ pack_btn' = TRUE
    /\ msgbox' = FinishedBox(success)
    /\ log_text' = IF success /\ answer = "Yes" /\ raises
                   THEN Append(log_text, Entry(0, TextCannotOpen \o <<"OSError">>))
                   ELSE log_text

\* log, as the slot of a BuildThread's log_signal
LogSlot(tid, message) ==
    /\ log_text' = Append(log_text, Entry(tid, message))
    /\ msgbox' = "none"
    /\ UNCHANGED <<progress, pack_btn>>

\* the UI thread's event loop delivers the oldest queued signal
Deliver ==
    /\ app = "running"
    /\ queue # <<>>
    /\ LET m == Head(queue)
       IN IF m.sig = "log"
          THEN /\ LogSlot(m.tid, m.arg)
               /\ threads' = [threads EXCEPT ![m.tid].received = Append(@, m.arg)]
          ELSE /\ \E answer \in {"Yes", "No"}, raises \in BOOLEAN :
                    OnPackFinished(m.arg, answer, raises)
               /\ threads' = [threads EXCEPT ![m.tid] = Finished]
    /\ queue' = Tail(queue)
    /\ UNCHANGED <<app, fs, pyinstaller_available, current_script, path_edit,
                   icon_edit, onefile_check, noconsole_check, install_btn,
                   build_thread, installs>>

\* a file of the file system is removed by someone else
DeleteFile(f) ==
    /\ app = "running"
    /\ f \in fs
    /\ fs' = fs \ {f}
    /\ msgbox' = "none"
    /\ UNCHANGED <<app, pyinstaller_available, current_script, path_edit,
                   icon_edit, onefile_check, noconsole_check, pack_btn,
                   progress, install_btn, log_text, build_thread, threads,
                   queue, installs>>

-----------------------------------------------------------------------------
(* install_pyinstaller and its install_task thread *)

\* install_pyinstaller, up to starting the thread
InstallClick ==
    /\ app = "running"
    /\ install_btn = "enabled"
    /\ Len(installs) < MaxInstalls
    /\ log_text' = Append(log_text, Entry(0, TextInstalling))
    /\ progress' = Busy
    /\ install_btn' = "disabled"
    /\ installs' = Append(installs, [pc |-> "pip", outcome |-> "none"])
    /\ msgbox' = "none"
    /\ UNCHANGED <<app, fs, pyinstaller_available, current_script, path_edit,
                   icon_edit, onefile_check, noconsole_check, pack_btn,
                   build_thread, threads, queue>>

\* install_task from the end of pip up to its message box, which the task
\* opens from its own thread: the statements take effect or the process dies
InstallTry(i, outcome) ==
    /\ app = "running"
    /\ installs[i].pc = "pip"
    /\ \/ /\ app' = app
          /\ installs' = [installs EXCEPT ![i] = [pc |-> "dialog", outcome |-> outcome]]
          /\ CASE outcome = "ok" ->
                    /\ pyinstaller_available' = TRUE
                    /\ pack_btn' = TRUE
                    /\ log_text' = Append(log_text, Entry(-1, TextInstallOk))
                    /\ install_btn' = "hidden"
                    /\ msgbox' = "install_ok"
               [] outcome = "fail" ->
                    /\ log_text' = Append(log_text, Entry(-1, TextInstallFailed))
                    /\ msgbox' = "install_failed"
                    /\ UNCHANGED <<pyinstaller_available, pack_btn, install_btn>>
               [] outcome = "exc" ->
                    /\ log_text' = Append(log_text,
                                          Entry(-1, TextInstallError \o <<"OSError">>))
                    /\ msgbox' = "install_error"
                    /\ UNCHANGED <<pyinstaller_available, pack_btn, install_btn>>
       \/ /\ app' = "crashed"
          /\ UNCHANGED <<installs, pyinstaller_available, pack_btn, log_text,
                         install_btn, msgbox>>
    /\ UNCHANGED <<fs, current_script, path_edit, icon_edit, onefile_check,
                   noconsole_check, progress, build_thread, threads, queue>>

\* install_task after its message box is closed, through the finally block
InstallFinally(i) ==
    /\ app = "running"
    /\ installs[i].pc = "dialog"
    /\ installs' = [installs EXCEPT ![i].pc = "done"]
    /\ install_btn' = IF installs[i].outcome = "ok" THEN install_btn ELSE "enabled"
    /\ progress' = Hidden
    /\ msgbox' = "none"
    /\ UNCHANGED <<app, fs, pyinstaller_available, current_script, path_edit,
                   icon_edit, onefile_check, noconsole_check, pack_btn,
                   log_text, build_thread, threads, queue>>

-----------------------------------------------------------------------------
(* The program *)

\* the window after setup_ui, before _handle_args; _check_pyinstaller has
\* found PyInstaller or not
Init ==
    /\ app = "init"
    /\ fs = InitialFiles
    /\ pyinstaller_available \in BOOLEAN
    /\ install_btn = IF pyinstaller_available THEN "absent" ELSE "enabled"
    /\ current_script = None
    /\ path_edit = <<>>
    /\ icon_edit = <<>>
    /\ onefile_check = TRUE
    /\ noconsole_check = FALSE
    /\ pack_btn = FALSE
    /\ progress = [visible |-> FALSE, range |-> <<0, 0>>]
    /\ log_text = <<>>
    /\ build_thread = 0
    /\ threads = <<>>
    /\ queue = <<>>
    /\ installs = <<>>
    /\ msgbox = "none"

UrlLists == UNION {[1..n -> DropPaths] : n \in 1..MaxUrls}

\* the build threads
RunStep == \E tid \in DOMAIN threads, proc \in Procs : Run(tid, proc)

\* the window with its default options: selections, builds and installs
Next ==
    \/ \E a \in ArgvPaths : HandleArgs(<<"pypacker", a>>)
    \/ HandleArgs(<<"pypacker">>)
    \/ StartPack
    \/ \E urls \in UrlLists : DropEvent(urls)
    \/ \E f \in ScriptChoices \cup {<<>>} : BrowseFile(f)
    \/ Deliver
    \/ InstallClick
    \/ \E i \in DOMAIN installs, o \in {"ok", "fail", "exc"} : InstallTry(i, o)
    \/ \E i \in DOMAIN installs : InstallFinally(i)
    \/ RunStep

Spec == Init /\ [][Next]_vars

\* the window started on a script, with the user changing the options
\* between builds
NextCmd ==
    \/ \E a \in ArgvPaths : HandleArgs(<<"pypacker", a>>)
    \/ StartPack
    \/ \E f \in IconChoices \cup {<<>>} : BrowseIcon(f)
    \/ ToggleOnefile
    \/ ToggleNoconsole
    \/ \E f \in Removable : DeleteFile(f)
    \/ Deliver
    \/ RunStep

SpecCmd == Init /\ [][NextCmd]_vars

-----------------------------------------------------------------------------
(* Properties *)

\* the builds whose on_pack_finished has not run yet
Pending == {tid \in DOMAIN threads : ~threads[tid].fin}

\* this step is the UI thread taking signal m from its queue
Delivering(m) == queue # <<>> /\ Head(queue) = m /\ queue' = Tail(queue)

\* this step is start_pack creating and starting a BuildThread
Starting == Len(threads') > Len(threads)

\* this step is run() of thread tid
Running(tid) == threads[tid].pc = "started" /\ threads'[tid].pc = "done"

\* the command line the claim C1 describes for thread t
ClaimedCmd(t, files) ==
    LET flags == IF t.noconsole THEN << <<"-w">> >> ELSE <<>>
        icon == IF t.icon_path # None /\ t.icon_path[1] # <<>>
                   /\ AbsPath(t.icon_path[1]) \in files
                THEN << <<"--icon">>, t.icon_path[1] >> ELSE <<>>
    IN << <<"python">>, <<"-m">>, <<"PyInstaller">>, <<"--distpath">>,
          t.output_folder, <<"--noconfirm">>,
          IF t.onefile THEN <<"-F">> ELSE <<"-D">> >>
       \o flags \o icon \o << t.script_path >>

\* C1: the command list run() builds is interpreter, -m, PyInstaller,
\* --distpath, output_folder, --noconfirm, then -F or -D by onefile, then -w
\* iff noconsole, then --icon icon_path iff icon_path is non-empty and exists,
\* then script_path; onefile and noconsole are the checkbox states start_pack
\* read when it started the build
C1_CommandLine ==
    [][ /\ \A tid \in DOMAIN threads :
             Running(tid) => threads'[tid].cmd = ClaimedCmd(threads[tid], fs)
        /\ Starting =>
             /\ threads'[Len(threads')].onefile = onefile_check
             /\ threads'[Len(threads')].noconsole = noconsole_check
      ]_vars

\* C1 witness: a build started with onefile unchecked, noconsole checked and
\* an existing icon has run with an eleven-element command
C1_Witness ==
    \E tid \in DOMAIN threads :
        /\ threads[tid].pc = "done"
        /\ ~threads[tid].onefile /\ threads[tid].noconsole
        /\ Len(threads[tid].cmd) = 11
        /\ threads[tid].cmd[7] = <<"-D">>

FinishedCount(e) == Cardinality({i \in DOMAIN e : e[i].sig = "finished"})

\* C2: a run emits finished_signal exactly once, as its last emission, with
\* True iff the subprocess was spawned and returned 0; the log line before
\* it is the success line exactly when the value is True, the failure line
\* or an exception line otherwise
C2_FinishedOnce ==
    \A tid \in DOMAIN threads :
        LET t == threads[tid]
            e == t.emitted
            n == Len(e)
        IN /\ t.pc = "started" => e = <<>>
           /\ (t.pc = "done" /\ ~t.fin) =>
                /\ n >= 2
                /\ FinishedCount(e) = 1
                /\ e[n].sig = "finished"
                /\ e[n].arg = (t.spawned /\ t.rc = Some(0))
                /\ e[n - 1].sig = "log"
                /\ (e[n - 1].arg = <<"dabao chenggong!">>) = e[n].arg
                /\ ~e[n].arg =>
                     \/ e[n - 1].arg = <<"dabao shibai">>
                     \/ e[n - 1].arg[1] = "zhixing yichang: "

\* C2 witness: a run whose subprocess returned 0 has emitted finished(True)
C2_Witness ==
    \E tid \in DOMAIN threads :
        /\ threads[tid].pc = "done" /\ ~threads[tid].fin
        /\ threads[tid].rc = Some(0)
        /\ threads[tid].emitted[Len(threads[tid].emitted)] = FinSig(tid, TRUE)

\* C3 as stated: every delivery of finished_signal(False) to on_pack_finished
\* shows a message box
C3_Original ==
    [][ \A tid \in DOMAIN threads :
            Delivering(FinSig(tid, FALSE)) => msgbox' # "none" ]_vars

\* C3 amended: on_pack_finished shows a message box, the question whether to
\* open the output folder, exactly when it is delivered True; a delivery of
\* False shows none and only hides the progress bar and enables the button
C3_BoxOnSuccessOnly ==
    [][ \A tid \in DOMAIN threads :
            /\ Delivering(FinSig(tid, TRUE)) => msgbox' = "pack_done_question"
            /\ Delivering(FinSig(tid, FALSE)) =>
                 /\ msgbox' = "none"
                 /\ pack_btn' /\ ~progress'.visible
                 /\ log_text' = log_text ]_vars

\* C3 witness: a failed build's finished signal has been handled without a
\* message box
C3_Witness ==
    \E tid \in DOMAIN threads :
        /\ threads[tid].fin
        /\ log_text # <<>>
        /\ log_text[Len(log_text)] = Entry(tid, <<"dabao shibai">>)
        /\ msgbox = "none" /\ pack_btn /\ ~progress.visible
        /\ queue = <<>>

\* C4: at most one build is in progress: start_pack never starts a
\* BuildThread while an earlier one has not delivered its finished signal
C4_SingleBuild == Cardinality(Pending) <= 1

\* the texts of the log signals in a sequence of emissions
RECURSIVE LogTexts(_)
LogTexts(e) ==
    IF e = <<>> THEN <<>>
    ELSE IF Head(e).sig = "log" THEN <<Head(e).arg>> \o LogTexts(Tail(e))
    ELSE LogTexts(Tail(e))

\* what C5 holds for every build: the log view is cleared when the build
\* starts, and when on_pack_finished runs the log slot has appended the
\* command line, a separator and the subprocess's lines, once each and in
\* order, and nothing of the build is still queued
LogHead(t) ==
    LET r == t.received
        n == Len(t.written)
    IN /\ Len(r) >= n + 3
       /\ r[1] = <<"zhixing mingling: ">> \o Join(t.cmd)
       /\ r[2] = <<"-*50">>
       /\ \A i \in 1..n : r[2 + i] = RStrip(t.written[i], {" ", "\n", "\t"})
       /\ r = LogTexts(t.emitted)

InstallStep == \E i \in DOMAIN installs : installs'[i] # installs[i]

\* C6: background threads only forward lines and the result through
\* signals; no step of a BuildThread or of the install task touches the log
\* view, the progress bar, the buttons, a message box or
\* pyinstaller_available
C6_SignalsOnly ==
    [][ (InstallStep \/ \E tid \in DOMAIN threads : Running(tid)) =>
            /\ UNCHANGED <<log_text, progress, pack_btn, install_btn,
                           pyinstaller_available>>
            /\ msgbox' = "none" ]_vars

\* C7: current_script is unset or a path ending in .py
C7_OnlyPy == current_script = None \/ EndsWithPy(current_script[1])

StartPackBoxes == {"select_script_first", "install_first", "file_missing"}

\* C8: start_pack starts a BuildThread only if a script is selected,
\* PyInstaller is available and the script exists; otherwise it shows its
\* dialog and leaves the log view, the pack button, the progress bar and
\* build_thread as they were on entry
C8_StartPackFrame ==
    [][ /\ Starting =>
             /\ current_script' # None /\ current_script'[1] # <<>>
             /\ pyinstaller_available
             /\ AbsPath(current_script'[1]) \in fs
        /\ msgbox' \in StartPackBoxes =>
             /\ \/ current_script' = None
                \/ ~pyinstaller_available
                \/ AbsPath(current_script'[1]) \notin fs
             /\ UNCHANGED <<log_text, progress, build_thread, threads, queue>>
             /\ pack_btn' = IF app = "init" THEN TRUE ELSE pack_btn ]_vars

\* C8 witness: start_pack has refused, with its dialog, while a build was in
\* progress
C8_Witness ==
    /\ msgbox \in StartPackBoxes
    /\ Pending # {}

\* C9: while a build is in progress the pack button is disabled and the
\* progress bar visible; once on_pack_finished has run and no build is in
\* progress the button is enabled and the bar hidden
C9_ButtonAndBar ==
    /\ Pending # {} => ~pack_btn /\ progress.visible
    /\ (threads # <<>> /\ Pending = {}) => pack_btn /\ ~progress.visible

====
